---- MODULE Spec2Model ----
(***************************************************************************)
(* Model of the anysync crawler (src/src/crawl.ts), the request client     *)
(* and the ordering of the result (src/src/anime/malsync.ts), the merge    *)
(* of the sources (src/src/anime/anilist.ts, mappings), the server and     *)
(* the durable store (src/src/db.ts).                                      *)
(*                                                                         *)
(* Text is modelled as a sequence of one-character strings, so that        *)
(* String.split, String.trim and strict equality are computed as the       *)
(* runtime computes them.  Array indices are the 0-based indices of the    *)
(* source: element k of a JavaScript array is At(arr, k).                  *)
(***************************************************************************)
EXTENDS Integers, Sequences, FiniteSets, TLC

\* ------------------------------------------------------------------------
\* Bounds of the model
\* ------------------------------------------------------------------------
\* longest id list served by the id source
MaxIds == 3
\* number of consecutive invocations of crawlAnime (process runs)
MaxRuns == 2

\* ------------------------------------------------------------------------
\* Text helpers
\* ------------------------------------------------------------------------
NL == "\n"
SP == " "

\* ids.txt lines the id source can serve: plain ids, and an id followed
\* by white space (the CR of a CRLF line end, a trailing blank)
IdPool == { <<"1">>, <<"2">>, <<"3", SP>> }

IsWhiteSpace(c) == c \in {SP, NL}

RECURSIVE TrimStart(_)
TrimStart(s) ==
  IF s # << >> /\ IsWhiteSpace(Head(s)) THEN TrimStart(Tail(s)) ELSE s

RECURSIVE TrimEnd(_)
TrimEnd(s) ==
  IF s # << >> /\ IsWhiteSpace(s[Len(s)])
  THEN TrimEnd(SubSeq(s, 1, Len(s) - 1))
  ELSE s

\* String.prototype.trim
Trim(s) == TrimEnd(TrimStart(s))

\* String.prototype.split("\n"): the pieces between newlines; a text
\* without newline is one piece, the empty text is one empty piece.
RECURSIVE Split(_)
Split(text) ==
  IF \E k \in 1..Len(text) : text[k] = NL
  THEN LET k == CHOOSE j \in 1..Len(text) :
                  text[j] = NL /\ \A m \in 1..(j - 1) : text[m] # NL
       IN  <<SubSeq(text, 1, k - 1)>> \o Split(SubSeq(text, k + 1, Len(text)))
  ELSE <<text>>

RECURSIVE JoinLines(_)
JoinLines(lines) ==
  IF Len(lines) = 1 THEN lines[1]
  ELSE lines[1] \o <<NL>> \o JoinLines(Tail(lines))

\* the response bodies of the id source: every text of 1..MaxIds lines
IdTexts ==
  { JoinLines(l) : l \in UNION { [1..n -> IdPool] : n \in 1..MaxIds } }

\* arr[k] of the source, k 0-based
At(arr, k) == arr[k + 1]

\* Array.prototype.findIndex((id) => id === x): first index, or -1
FindIndex(arr, x) ==
  IF \E k \in 0..(Len(arr) - 1) : At(arr, k) = x
  THEN CHOOSE k \in 0..(Len(arr) - 1) :
         At(arr, k) = x /\ \A m \in 0..(k - 1) : At(arr, m) # x
  ELSE -1

\* ------------------------------------------------------------------------
\* JavaScript values
\* ------------------------------------------------------------------------
JsUndefined == "<undefined>"
JsNull == "<null>"
\* the title object built by getAnimeInfo (an object is always truthy)
TitleObject == "<object>"
\* an id field that is undefined
IdUndefined == <<JsUndefined>>

\* a ?? b
Coalesce(a, b) == IF a \in {JsUndefined, JsNull} THEN b ELSE a

\* truthiness of a string-or-nullish value
Truthy(v) == v \notin {JsUndefined, JsNull, ""}

\* truthiness of a text (sequence of characters) or undefined
TruthyText(t) == t # IdUndefined /\ t # << >>

\* String(Number(id)): Number ignores surrounding white space and reads
\* the empty text as 0
NumberText(id) == IF Trim(id) = << >> THEN <<"0">> ELSE Trim(id)

\* ------------------------------------------------------------------------
\* Upstream responses (the environment)
\* ------------------------------------------------------------------------
\* AniList answer: failed request, or a Media whose status may be null
AnilistResponses ==
  { [ok |-> FALSE, status |-> JsNull] } \cup
  { [ok |-> TRUE, status |-> s] : s \in {JsNull, "FINISHED"} }

\* Anify answer: failed request, or a record whose status may be null
AnifyResponses ==
  { [ok |-> FALSE, status |-> JsUndefined] } \cup
  { [ok |-> TRUE, status |-> s] : s \in {JsNull, "RELEASING"} }

\* ------------------------------------------------------------------------
\* getAnimeInfo (src/src/anime/anilist.ts), the fields the crawl reads
\* ------------------------------------------------------------------------
NullInfo ==
  [isNull |-> TRUE, id |-> IdUndefined, title |-> JsUndefined,
   status |-> JsUndefined]

\* status: anilistData?.status ?? anifyData?.status ?? ""
StatusOf(anilist, anify) ==
  Coalesce(IF anilist.ok THEN anilist.status ELSE JsUndefined,
           Coalesce(IF anify.ok THEN anify.status ELSE JsUndefined, ""))

\* anilistData.studios.nodes throws when the AniList request failed, and
\* the catch returns null; otherwise the merged record, whose title is
\* always an object and whose id is the requested one.
GetAnimeInfo(reqId, anilist, anify) ==
  IF ~anilist.ok THEN NullInfo
  ELSE [isNull |-> FALSE, id |-> reqId, title |-> TitleObject,
        status |-> StatusOf(anilist, anify)]

\* ------------------------------------------------------------------------
\* getMappings (mappings module), the fields the crawl reads
\* ------------------------------------------------------------------------
UndefinedResult ==
  [isUndefined |-> TRUE, id |-> IdUndefined, title |-> JsUndefined,
   status |-> JsUndefined]

\* providersOk = FALSE: a provider answer the merge cannot read, so the
\* top-level catch logs and the call yields undefined.  With info = null
\* the spread adds no field: id, title and status stay undefined.
GetMappings(id, anilist, anify, providersOk) ==
  IF ~providersOk THEN UndefinedResult
  ELSE LET info == GetAnimeInfo(NumberText(id), anilist, anify)
       IN  [isUndefined |-> FALSE, id |-> info.id, title |-> info.title,
            status |-> info.status]

\* ------------------------------------------------------------------------
\* crawl.ts
\* ------------------------------------------------------------------------
DELAY_MS == 2000

savingStatuses == {"FINISHED", "CANCELLED"}

\* the condition guarding insertAnime in crawlAnime
Gate(m) ==
  /\ (m.status \in savingStatuses \/ m.status # JsNull \/ m.status # "")
  /\ Truthy(m.title)
  /\ TruthyText(m.id)

NoFile == [exists |-> FALSE, content |-> << >>]

\* fs.writeFile(LAST_ID_FILE, id.toString())
WriteFile(id) == [exists |-> TRUE, content |-> id]

NullId == [isNull |-> TRUE, text |-> << >>]

\* getLastCrawledId: the trimmed file content, null when reading fails
GetLastCrawledId(f) ==
  IF f.exists THEN [isNull |-> FALSE, text |-> Trim(f.content)] ELSE NullId

\* the start index computed by crawlAnime from the id list and the
\* value read by getLastCrawledId
StartIndex(idList, last) ==
  IF ~last.isNull /\ last.text # << >>
  THEN IF FindIndex(idList, last.text) = -1
       THEN 0
       ELSE FindIndex(idList, last.text) + 1
  ELSE 0

\* insertAnime rejects a document whose id is already stored (unique index)
IsDuplicate(store, m) == \E e \in store : e.id = m.id

\* the document saved for m, reduced to its unique key
Stored(m) == [id |-> m.id]

\* ------------------------------------------------------------------------
\* State
\* ------------------------------------------------------------------------
VARIABLES
  pc,            \* position of crawlAnime: Idle, Processing, Saving,
                 \* Checkpointing, Sleeping, Completed, Aborted
  run,           \* number of the current invocation of crawlAnime
  exitCode,      \* status passed to process.exit, 0 while none was passed
  ids,           \* the id list of this run (getIds)
  lastCrawledId, \* the value getLastCrawledId returned to this run
  startIndex,    \* the start index of this run
  i,             \* the loop index
  mappingData,   \* the result of getMappings for ids[i]
  file,          \* last_crawled_id.txt
  db,            \* the documents of the Anime collection (their keys)
  outcome,       \* how the latest processed id ended
  processed,     \* indices for which getMappings was called, in call order
  inserted,      \* indices whose insertAnime completed in this run
  writes,        \* indices whose id this run wrote to the file, in order
  pausedMs,      \* time slept since the latest call of getMappings
  config,        \* the RateLimitConfig of the request client
  calls,         \* the logical requests made through the request client
  sources,       \* what each source answered to one call of getMappings
  entity,        \* what that call of getMappings returned
  obj,           \* the object passed to sortKeysByValueLength
  sorted,        \* the object it returned
  secretKey,     \* process.env.SECRET_KEY of the server
  store,         \* the ids of the Anime collection the server reads
  cache,         \* the ids that have a cache entry
  response,      \* the latest request of the server and its response
  requests,      \* number of requests the server has handled
  earlier        \* the id list of the previous run of the crawler and
                 \* the indices it processed without storing the id

vars ==
  <<pc, run, exitCode, ids, lastCrawledId, startIndex, i, mappingData, file,
    db, outcome, processed, inserted, writes, pausedMs, config, calls,
    sources, entity, obj, sorted, secretKey, store, cache, response,
    requests, earlier>>

crawlVars ==
  <<pc, run, exitCode, ids, lastCrawledId, startIndex, i, mappingData, file,
    db, outcome, processed, inserted, writes, pausedMs, earlier>>

clientVars == <<config, calls>>

mergeVars == <<sources, entity>>

sortVars == <<obj, sorted>>

serverVars == <<secretKey, store, cache, response, requests>>

\* the crawler runs with no request of the client under observation
ClientUnused == config = "none" /\ calls = << >>

\* the crawler runs with no call of getMappings under observation
NotCalled == [called |-> FALSE]
MergeUnused == sources = "none" /\ entity = NotCalled

\* ... with no call of sortKeysByValueLength under observation
SortUnused == obj = "none" /\ sorted = "none"

\* ... and with no server
ServerUnused ==
  /\ secretKey = "none"
  /\ store = {}
  /\ cache = {}
  /\ response = "none"
  /\ requests = 0

\* variant: the loop condition reads i < ids.length - 1
LoopPc_OffByOne(idList, k) ==
  IF k < Len(idList) - 1 THEN "Processing" ELSE "Completed"

\* for (...; i < ids.length; ...): the loop body runs, or the loop ends
\* and crawlAnime logs completion
LoopPc(idList, k) == IF k < Len(idList) THEN "Processing" ELSE "Completed"

NoEarlierRun == [ids |-> << >>, unstored |-> {}]

CrawlInit ==
  /\ pc = "Idle"
  /\ earlier = NoEarlierRun
  /\ run = 1
  /\ exitCode = 0
  /\ ids = << >>
  /\ lastCrawledId = NullId
  /\ startIndex = 0
  /\ i = 0
  /\ mappingData = UndefinedResult
  /\ file = NoFile
  /\ db = {}
  /\ outcome = "none"
  /\ processed = << >>
  /\ inserted = {}
  /\ writes = << >>
  /\ pausedMs = 0

Init ==
  CrawlInit /\ ClientUnused /\ MergeUnused /\ SortUnused /\ ServerUnused

\* getIds succeeds; getLastCrawledId; the start index; entry of the loop
StartCrawl ==
  /\ pc = "Idle"
  /\ \E data \in IdTexts :
       LET idList == Split(data)
           last == GetLastCrawledId(file)
       IN  /\ ids' = idList
           /\ lastCrawledId' = last
           /\ startIndex' = StartIndex(idList, last)
           /\ i' = StartIndex(idList, last)
           /\ pc' = LoopPc(idList, StartIndex(idList, last))
  /\ UNCHANGED <<earlier, run, exitCode, mappingData, file, db, outcome, processed,
                 inserted, writes, pausedMs>>
  /\ UNCHANGED <<clientVars, mergeVars, sortVars, serverVars>>

\* variant: getIds swallows the error and returns no id; the run ends
\* as if the list were empty
GetIdsFails_Swallowed ==
  /\ pc = "Idle"
  /\ pc' = "Completed"
  /\ UNCHANGED <<earlier, run, exitCode, ids, lastCrawledId, startIndex, i,
                 mappingData, file, db, outcome, processed, inserted, writes,
                 pausedMs>>
  /\ UNCHANGED <<clientVars, mergeVars, sortVars, serverVars>>

\* getIds rethrows; the outer catch of crawlAnime calls process.exit(1)
GetIdsFails ==
  /\ pc = "Idle"
  /\ pc' = "Aborted"
  /\ exitCode' = 1
  /\ UNCHANGED <<earlier, run, ids, lastCrawledId, startIndex, i, mappingData, file,
                 db, outcome, processed, inserted, writes, pausedMs>>
  /\ UNCHANGED <<clientVars, mergeVars, sortVars, serverVars>>

\* variant: saveLastId(id) is called after the if, for every processed id
Process_CheckpointsSkipped ==
  /\ pc = "Processing"
  /\ \E anilist \in AnilistResponses, anify \in AnifyResponses,
        providersOk \in BOOLEAN :
       LET m == GetMappings(At(ids, i), anilist, anify, providersOk)
       IN  /\ mappingData' = m
           /\ IF ~m.isUndefined /\ Gate(m)
              THEN /\ pc' = "Saving"
                   /\ outcome' = "processing"
                   /\ UNCHANGED <<file, writes>>
              ELSE /\ pc' = "Sleeping"
                   /\ outcome' = IF m.isUndefined THEN "noResult"
                                 ELSE "gateFailed"
                   /\ file' = WriteFile(At(ids, i))
                   /\ writes' = Append(writes, i)
  /\ processed' = Append(processed, i)
  /\ pausedMs' = 0
  /\ UNCHANGED <<earlier, run, exitCode, ids, lastCrawledId, startIndex, i, db,
                 inserted>>
  /\ UNCHANGED <<clientVars, mergeVars, sortVars, serverVars>>

\* variant: getMappings has no top-level catch, so what it throws reaches
\* the inner catch of the loop, which logs and goes on without the pause
Process_MappingsThrow ==
  /\ pc = "Processing"
  /\ \E anilist \in AnilistResponses, anify \in AnifyResponses,
        providersOk \in BOOLEAN :
       LET m == GetMappings(At(ids, i), anilist, anify, providersOk)
       IN  /\ mappingData' = m
           /\ IF m.isUndefined
              THEN /\ pc' = LoopPc(ids, i + 1)
                   /\ i' = i + 1
                   /\ outcome' = "failed"
              ELSE /\ i' = i
                   /\ IF Gate(m)
                      THEN pc' = "Saving" /\ outcome' = "processing"
                      ELSE pc' = "Sleeping" /\ outcome' = "gateFailed"
  /\ processed' = Append(processed, i)
  /\ pausedMs' = 0
  /\ UNCHANGED <<earlier, run, exitCode, ids, lastCrawledId, startIndex, file, db,
                 inserted, writes>>
  /\ UNCHANGED <<clientVars, mergeVars, sortVars, serverVars>>

\* the loop body up to the decision: getMappings(ids[i]) and the gate
Process ==
  /\ pc = "Processing"
  /\ \E anilist \in AnilistResponses, anify \in AnifyResponses,
        providersOk \in BOOLEAN :
       LET m == GetMappings(At(ids, i), anilist, anify, providersOk)
       IN  /\ mappingData' = m
           /\ IF m.isUndefined
              THEN pc' = "Sleeping" /\ outcome' = "noResult"
              ELSE IF Gate(m)
                   THEN pc' = "Saving" /\ outcome' = "processing"
                   ELSE pc' = "Sleeping" /\ outcome' = "gateFailed"
  /\ processed' = Append(processed, i)
  /\ pausedMs' = 0
  /\ UNCHANGED <<earlier, run, exitCode, ids, lastCrawledId, startIndex, i, file, db,
                 inserted, writes>>
  /\ UNCHANGED <<clientVars, mergeVars, sortVars, serverVars>>

\* insertAnime(mappingData) resolves
InsertAnime ==
  /\ pc = "Saving"
  /\ ~IsDuplicate(db, mappingData)
  /\ db' = db \cup {Stored(mappingData)}
  /\ inserted' = inserted \cup {i}
  /\ pc' = "Checkpointing"
  /\ UNCHANGED <<earlier, run, exitCode, ids, lastCrawledId, startIndex, i,
                 mappingData, file, outcome, processed, writes, pausedMs>>
  /\ UNCHANGED <<clientVars, mergeVars, sortVars, serverVars>>

\* variant: insertAnime logs the error without rethrowing it, so the
\* loop body goes on to saveLastId
InsertAnimeThrows_StillCheckpoints ==
  /\ pc = "Saving"
  /\ pc' = "Checkpointing"
  /\ UNCHANGED <<earlier, run, exitCode, ids, lastCrawledId, startIndex, i,
                 mappingData, file, db, outcome, processed, inserted, writes,
                 pausedMs>>
  /\ UNCHANGED <<clientVars, mergeVars, sortVars, serverVars>>

\* variant: no inner try/catch, the rejection reaches the outer catch
InsertAnimeThrows_Aborts ==
  /\ pc = "Saving"
  /\ outcome' = "failed"
  /\ pc' = "Aborted"
  /\ exitCode' = 1
  /\ mappingData' = UndefinedResult
  /\ UNCHANGED <<earlier, run, ids, lastCrawledId, startIndex, i, file, db,
                 processed, inserted, writes, pausedMs>>
  /\ UNCHANGED <<clientVars, mergeVars, sortVars, serverVars>>

\* insertAnime rejects (duplicate id, validation, connection); the inner
\* catch logs and the loop goes on
InsertAnimeThrows ==
  /\ pc = "Saving"
  /\ outcome' = "failed"
  /\ i' = i + 1
  /\ pc' = LoopPc(ids, i + 1)
  /\ mappingData' = UndefinedResult
  /\ UNCHANGED <<earlier, run, exitCode, ids, lastCrawledId, startIndex, file, db,
                 processed, inserted, writes, pausedMs>>
  /\ UNCHANGED <<clientVars, mergeVars, sortVars, serverVars>>

\* saveLastId(id): fs.writeFile resolves, or it rejects and saveLastId
\* logs the error and returns normally
SaveLastId ==
  /\ pc = "Checkpointing"
  /\ \E writeOk \in BOOLEAN :
       IF writeOk
       THEN file' = WriteFile(At(ids, i)) /\ writes' = Append(writes, i)
       ELSE UNCHANGED <<file, writes>>
  /\ outcome' = "saved"
  /\ pc' = "Sleeping"
  /\ UNCHANGED <<earlier, run, exitCode, ids, lastCrawledId, startIndex, i,
                 mappingData, db, processed, inserted, pausedMs>>
  /\ UNCHANGED <<clientVars, mergeVars, sortVars, serverVars>>

\* await Bun.sleep(DELAY_MS), then the next iteration of the loop
Sleep ==
  /\ pc = "Sleeping"
  /\ pausedMs' = DELAY_MS
  /\ i' = i + 1
  /\ pc' = LoopPc(ids, i + 1)
  /\ mappingData' = UndefinedResult
  /\ UNCHANGED <<earlier, run, exitCode, ids, lastCrawledId, startIndex, file, db,
                 outcome, processed, inserted, writes>>
  /\ UNCHANGED <<clientVars, mergeVars, sortVars, serverVars>>

\* the crawler is invoked again (a new process): only the file and the
\* collection outlive the run
Restart ==
  /\ pc \in {"Completed", "Aborted"}
  /\ run < MaxRuns
  /\ run' = run + 1
  /\ pc' = "Idle"
  /\ exitCode' = 0
  /\ ids' = << >>
  /\ lastCrawledId' = NullId
  /\ startIndex' = 0
  /\ i' = 0
  /\ mappingData' = UndefinedResult
  /\ outcome' = "none"
  /\ processed' = << >>
  /\ inserted' = {}
  /\ writes' = << >>
  /\ pausedMs' = 0
  /\ UNCHANGED <<file, db>>
  /\ UNCHANGED <<clientVars, mergeVars, sortVars, serverVars>>

Rerun == Restart /\ UNCHANGED earlier

\* the same step, with the run that ends kept on record
RerunObserved ==
  /\ Restart
  /\ earlier' =
       [ids |-> ids,
        unstored |-> { k \in {processed[n] : n \in 1..Len(processed)} :
                         k \notin inserted }]

Next ==
  \/ StartCrawl
  \/ GetIdsFails
  \/ Process
  \/ InsertAnime
  \/ InsertAnimeThrows
  \/ SaveLastId
  \/ Sleep
  \/ Rerun

Spec == Init /\ [][Next]_vars

\* every step of a run; an awaited promise settles, so a run that can
\* take a step eventually takes one
RunStep ==
  \/ StartCrawl
  \/ GetIdsFails
  \/ Process
  \/ InsertAnime
  \/ InsertAnimeThrows
  \/ SaveLastId
  \/ Sleep

FairSpec == Init /\ [][Next]_vars /\ WF_vars(RunStep)

\* consecutive runs of the crawler, each run on record for the next one
ObservedNext == RunStep \/ RerunObserved

ObservedSpec == Init /\ [][ObservedNext]_vars

\* ------------------------------------------------------------------------
\* Helpers of the properties
\* ------------------------------------------------------------------------
Range(seq) == { seq[k] : k \in 1..Len(seq) }

\* the run has just computed its start index and processed nothing yet
JustStarted == pc \in {"Processing", "Completed"} /\ processed = << >>

\* this step writes the checkpoint file
WritesCheckpoint == Len(writes') > Len(writes)

\* the checkpoint file holds a text that is an element of the id list
CheckpointInList == file.exists /\ FindIndex(ids, file.content) # -1

\* ------------------------------------------------------------------------
\* C1  Resume correctness: when the persisted checkpoint occurs in the
\* freshly fetched id list, the run starts at the position after it; when
\* the checkpoint is missing or does not occur in the list, the run starts
\* at position 0.
\* ------------------------------------------------------------------------
C1_ResumeAfterCheckpoint ==
  JustStarted =>
    /\ i = startIndex
    /\ IF CheckpointInList
       THEN startIndex = FindIndex(ids, file.content) + 1
       ELSE startIndex = 0

\* ------------------------------------------------------------------------
\* C2  A run whose id list was fetched and whose start index is s calls
\* getMappings for exactly the indices s, s+1, ..., last, each once, in
\* list order and one at a time, whatever the outcome of each id, and then
\* reaches Completed.
\* ------------------------------------------------------------------------
\* the indices s, s+1, ... in order, as many as were processed so far
InOrderFrom(s, seq) == \A k \in 1..Len(seq) : seq[k] = s + k - 1

\* number of indices from s to the last one of the list
Remaining(s, idList) == IF s < Len(idList) THEN Len(idList) - s ELSE 0

C2_SweepShape ==
  /\ InOrderFrom(startIndex, processed)
  /\ pc \in {"Saving", "Checkpointing", "Sleeping"} =>
       /\ processed # << >>
       /\ i = processed[Len(processed)]
  /\ pc = "Processing" => i = startIndex + Len(processed)
  /\ pc = "Completed" => Len(processed) = Remaining(startIndex, ids)

\* C2: the sweep has the shape above in every state, and a run that
\* entered the loop reaches Completed
C2_SweepInOrderToCompletion ==
  /\ []C2_SweepShape
  /\ (pc = "Processing") ~> (pc = "Completed")

\* list [1, 2, 3] with checkpoint 2: only index 2 (the third id) was
\* processed
C2_Witness ==
  /\ pc = "Completed"
  /\ ids = << <<"1">>, <<"2">>, <<"3", SP>> >>
  /\ lastCrawledId = [isNull |-> FALSE, text |-> <<"2">>]
  /\ processed = <<2>>

\* ------------------------------------------------------------------------
\* C3  Checkpoint monotonicity: within one run every write of the
\* checkpoint stores the id of a position strictly greater than the
\* position, in the current id list, of the checkpoint persisted before it.
\* ------------------------------------------------------------------------
C3_CheckpointOnlyAdvances ==
  [][ WritesCheckpoint =>
        (CheckpointInList => i > FindIndex(ids, file.content)) ]_vars

\* ------------------------------------------------------------------------
\* C4  The checkpoint is written only after insertAnime completed for the
\* same id, at most once per id: the checkpoint written by a run names an
\* id whose document this run stored.
\* ------------------------------------------------------------------------
C4_WritesFollowInserts ==
  /\ \A k \in 1..Len(writes) :
       /\ writes[k] \in inserted
       /\ \A j \in 1..(k - 1) : writes[j] # writes[k]
  /\ writes # << >> =>
       /\ file = WriteFile(At(ids, writes[Len(writes)]))
       /\ [id |-> NumberText(file.content)] \in db

\* C4: the above in every state, and each write happens at an index
\* whose insert already completed and stores that index's id
C4_CheckpointOnlyAfterInsert ==
  /\ []C4_WritesFollowInserts
  /\ [][ WritesCheckpoint =>
           /\ i \in inserted
           /\ writes' = Append(writes, i)
           /\ file' = WriteFile(At(ids, i)) ]_vars

\* two ids saved and checkpointed in one run
C4_Witness == pc = "Sleeping" /\ outcome = "saved" /\ Len(writes) = 2

\* ------------------------------------------------------------------------
\* C5  Skipping leaves durable state unchanged: when getMappings yields no
\* result, or a result that fails the gate, there is no insert and no
\* checkpoint write for that id and the loop advances to the next index.
\* ------------------------------------------------------------------------
Skipped(m) == m.isUndefined \/ ~Gate(m)

C6_FailureIsolation ==
  /\ [][ pc = "Saving" /\ pc' # "Checkpointing" =>
           /\ outcome' = "failed"
           /\ file' = file
           /\ writes' = writes
           /\ exitCode' = 0
           /\ i' = i + 1
           /\ pc' = IF i + 1 < Len(ids) THEN "Processing" ELSE "Completed"
       ]_vars
  /\ [](outcome = "failed" =>
          pc # "Aborted" /\ (i - 1) \notin Range(writes))
  /\ (outcome = "failed") ~> (pc = "Completed")

\* an insert was rejected in the middle of a sweep
C6_Witness ==
  /\ outcome = "failed"
  /\ pc = "Processing"
  /\ processed # << >>
  /\ file.exists

\* ------------------------------------------------------------------------
\* C7  Between the processing of two consecutive ids the controller
\* sleeps DELAY_MS, whatever the outcome of the earlier id (saved,
\* skipped, failed).
\* ------------------------------------------------------------------------
C7_PauseBetweenIds ==
  (pc = "Processing" /\ processed # << >>) => pausedMs = DELAY_MS

\* ------------------------------------------------------------------------
\* C8  When the id-list fetch fails the run ends Aborted (exit status 1)
\* without processing an id, without insert, without changing the
\* checkpoint, and it never reaches Completed.
\* ------------------------------------------------------------------------
C8_FetchFailureAborts ==
  /\ [][ pc = "Idle" /\ pc' # "Idle" /\ ids' = << >> =>
           /\ pc' = "Aborted"
           /\ exitCode' = 1
           /\ UNCHANGED <<file, db, processed, inserted, writes>> ]_vars
  /\ [][ pc = "Aborted" =>
           /\ pc' = "Aborted" \/ run' # run
           /\ UNCHANGED <<file, db>> ]_vars
  /\ [](pc = "Aborted" =>
          /\ exitCode = 1
          /\ processed = << >>
          /\ inserted = {}
          /\ writes = << >>)

\* a second run aborted while a checkpoint and documents exist
C8_Witness == pc = "Aborted" /\ run = 2 /\ file.exists /\ db # {}

\* ------------------------------------------------------------------------
\* C9  When persisting the checkpoint fails after the document was stored,
\* the run ends Aborted: the controller does not go on with a checkpoint
\* that lags behind the store.
\* ------------------------------------------------------------------------
C9_CheckpointFailureAborts ==
  pc \notin {"Checkpointing", "Aborted"} => inserted \subseteq Range(writes)

\* ------------------------------------------------------------------------
\* C10  Minimum-viable record: every record the crawl hands to the store
\* has a non-empty id, a title, and a status that is neither unset nor
\* the empty string.
\* ------------------------------------------------------------------------
MinimumViable(m) ==
  /\ TruthyText(m.id)
  /\ Truthy(m.title)
  /\ m.status \notin {JsUndefined, JsNull, ""}

\* C10: the record whose insertAnime just completed is minimum-viable
C10_StoredRecordsAreViable ==
  (pc = "Checkpointing" /\ i \in inserted) => MinimumViable(mappingData)

\* ------------------------------------------------------------------------
\* The request client: RateLimitedAxios (malsync.ts)
\* ------------------------------------------------------------------------

\* largest maxRetries a client is configured with
MaxRetriesCfg == 5

\* the logical requests under observation: two requests of the fan-out of
\* one id, made through the same client and in flight at the same time
Calls == {"getMal", "getAni"}

\* the delays the client anisync is constructed with
BASE_DELAY_MS == 1000
MAX_DELAY_MS == 10000

\* Math.random() * 100 lies in [0, 100)
JITTER_MS == 100
Jitters == {0, JITTER_MS - 1}

\* the RateLimitConfig of a client
Configs ==
  { [maxRetries |-> n, baseDelayMs |-> BASE_DELAY_MS,
     maxDelayMs |-> MAX_DELAY_MS] : n \in 0..MaxRetriesCfg }

\* Date.now(), in milliseconds
NowMs == 200000000

\* response headers: a header that is absent reads as the empty text,
\* which is falsy like undefined
NoHeaders == [reset |-> << >>, retryAfter |-> << >>, xRetryAfter |-> << >>]

\* a timestamp 2 s after NowMs, one before NowMs (6 characters each), and
\* a count of seconds of 5 characters
FutureReset == <<"2", "0", "0", "0", "0", "2">>
PastReset == <<"1", "5", "0", "0", "0", "0">>
LongCount == <<"1", "0", "0", "0", "0">>

HeaderPool ==
  { NoHeaders,
    [NoHeaders EXCEPT !.retryAfter = <<"2">>],
    [NoHeaders EXCEPT !.reset = FutureReset],
    [NoHeaders EXCEPT !.reset = PastReset, !.retryAfter = <<"3">>],
    [NoHeaders EXCEPT !.retryAfter = LongCount, !.xRetryAfter = <<"4">>],
    [NoHeaders EXCEPT !.xRetryAfter = <<"4">>] }

\* what the server answers to one attempt; without a response (a network
\* error) error.response is undefined
NoResponse == [hasResponse |-> FALSE, status |-> 0, headers |-> NoHeaders]

Responses ==
  { [hasResponse |-> TRUE, status |-> st, headers |-> h] :
      st \in {200, 404, 429, 503}, h \in HeaderPool }
  \cup {NoResponse}

\* axios validateStatus: a 2xx response resolves, anything else rejects
IsSuccess(resp) == resp.hasResponse /\ resp.status >= 200 /\ resp.status < 300

DigitValue(c) ==
  CASE c = "0" -> 0 [] c = "1" -> 1 [] c = "2" -> 2 [] c = "3" -> 3
    [] c = "4" -> 4 [] c = "5" -> 5 [] c = "6" -> 6 [] c = "7" -> 7
    [] c = "8" -> 8 [] c = "9" -> 9

\* Number(text) of a text of decimal digits
RECURSIVE NumberOf(_)
NumberOf(t) ==
  IF t = << >> THEN 0
  ELSE 10 * NumberOf(SubSeq(t, 1, Len(t) - 1)) + DigitValue(t[Len(t)])

Max(a, b) == IF a >= b THEN a ELSE b
Min(a, b) == IF a <= b THEN a ELSE b

NoDelay == [isNull |-> TRUE, ms |-> 0]

\* variant: retry-after is read before x-ratelimit-reset
GetRateLimitDelay_RetryAfterFirst(headers) ==
  LET resetTime ==
        IF headers.retryAfter # << >> THEN headers.retryAfter
        ELSE IF headers.reset # << >> THEN headers.reset
        ELSE headers.xRetryAfter
  IN  IF resetTime # << >>
      THEN IF Len(resetTime) > 5
           THEN [isNull |-> FALSE,
                 ms |-> Max(0, NumberOf(resetTime) * 1000 - NowMs)]
           ELSE [isNull |-> FALSE, ms |-> NumberOf(resetTime) * 1000]
      ELSE NoDelay

\* getRateLimitDelay: the first header present; longer than 5 characters
\* it is a timestamp in seconds, otherwise a number of seconds
GetRateLimitDelay(headers) ==
  LET resetTime ==
        IF headers.reset # << >> THEN headers.reset
        ELSE IF headers.retryAfter # << >> THEN headers.retryAfter
        ELSE headers.xRetryAfter
  IN  IF resetTime # << >>
      THEN IF Len(resetTime) > 5
           THEN [isNull |-> FALSE,
                 ms |-> Max(0, NumberOf(resetTime) * 1000 - NowMs)]
           ELSE [isNull |-> FALSE, ms |-> NumberOf(resetTime) * 1000]
      ELSE NoDelay

\* calculateBackoffDelay: min(maxDelayMs, baseDelayMs * 2 ** retryCount)
\* plus the jitter
CalculateBackoffDelay(cfg, retryCount, jitter) ==
  Min(cfg.maxDelayMs, cfg.baseDelayMs * 2 ^ retryCount) + jitter

\* variant: the comparison reads retryCount <= maxRetries
ShouldRetry_OneMore(cfg, retryCount, resp) ==
  /\ retryCount <= cfg.maxRetries
  /\ (resp.status = 429 \/ resp.status >= 500)

\* variant: every error status is retried
ShouldRetry_AnyError(cfg, retryCount, resp) ==
  /\ retryCount < cfg.maxRetries
  /\ (~resp.hasResponse \/ resp.status >= 400)

\* the condition of the error interceptor; a missing response has the
\* status undefined, which is not 429 and reads as 0 under "?? 0"
ShouldRetry(cfg, retryCount, resp) ==
  /\ retryCount < cfg.maxRetries
  /\ (resp.status = 429 \/ resp.status >= 500)

\* const delay = rateLimitDelay ?? this.calculateBackoffDelay(retryCount)
RetryDelay(cfg, retryCount, resp, jitter) ==
  LET rateLimitDelay ==
        IF resp.hasResponse THEN GetRateLimitDelay(resp.headers) ELSE NoDelay
  IN  IF rateLimitDelay.isNull
      THEN [from |-> "backoff",
            ms |-> CalculateBackoffDelay(cfg, retryCount, jitter)]
      ELSE [from |-> "header", ms |-> rateLimitDelay.ms]

NoDelivery == [kind |-> "none", status |-> 0, attempt |-> 0]

\* variant: the interceptor rejects with a new error that wraps the failure
Rejection_Wrapped(resp, attempt) ==
  [kind |-> "wrappedError", status |-> resp.status, attempt |-> attempt]

\* Promise.reject(error): the caller's promise rejects with the error of
\* the attempt that just failed
Rejection(resp, attempt) ==
  [kind |-> "error", status |-> resp.status, attempt |-> attempt]

\* the response interceptor returns the response as it is
Resolution(resp, attempt) ==
  [kind |-> "response", status |-> resp.status, attempt |-> attempt]

\* a logical request: config.__retryCount, the attempts sent so far, the
\* latest answer, the delay being slept, and what the caller received
IdleCall ==
  [state |-> "idle", retryCount |-> 0, sent |-> 0, status |-> 0,
   headers |-> NoHeaders, delay |-> 0, delayFrom |-> "none",
   all429 |-> TRUE,
   delivered |-> NoDelivery]

\* anisync.get(url): the first attempt is sent
Issue(r) ==
  /\ calls[r].state = "idle"
  /\ calls' = [calls EXCEPT ![r].state = "inFlight", ![r].sent = 1]
  /\ UNCHANGED <<config, crawlVars, mergeVars, sortVars, serverVars>>

\* variant: a success after failed attempts is followed by one more attempt
Succeed_SendsAgain(r) ==
  /\ calls[r].state = "inFlight"
  /\ \E resp \in Responses :
       /\ IsSuccess(resp)
       /\ calls' = [calls EXCEPT
            ![r].state = IF calls[r].sent > 1 THEN "inFlight" ELSE "resolved",
            ![r].sent = IF calls[r].sent > 1 THEN @ + 1 ELSE @,
            ![r].status = resp.status,
            ![r].all429 = FALSE,
            ![r].delivered = Resolution(resp, calls[r].sent)]
  /\ UNCHANGED <<config, crawlVars, mergeVars, sortVars, serverVars>>

\* the attempt is answered with a 2xx status: the promise of the logical
\* request resolves with this response
Succeed(r) ==
  /\ calls[r].state = "inFlight"
  /\ \E resp \in Responses :
       /\ IsSuccess(resp)
       /\ calls' = [calls EXCEPT
            ![r].state = "resolved",
            ![r].status = resp.status,
            ![r].all429 = FALSE,
            ![r].delivered = Resolution(resp, calls[r].sent)]
  /\ UNCHANGED <<config, crawlVars, mergeVars, sortVars, serverVars>>

\* variant: the retry count is a field of the client, shared by its requests
Fail_SharedCounter(r) ==
  /\ calls[r].state = "inFlight"
  /\ \E resp \in Responses, jitter \in Jitters :
       /\ ~IsSuccess(resp)
       /\ LET retryCount == calls[r].retryCount
              delay == RetryDelay(config, retryCount, resp, jitter)
              is429 == calls[r].all429 /\ resp.status = 429
          IN  IF ShouldRetry(config, retryCount, resp)
              THEN calls' = [q \in Calls |->
                     IF q = r
                     THEN [calls[q] EXCEPT
                             !.state = "sleeping",
                             !.retryCount = retryCount + 1,
                             !.status = resp.status,
                             !.headers = resp.headers,
                             !.delay = delay.ms,
                             !.delayFrom = delay.from,
                             !.all429 = is429]
                     ELSE [calls[q] EXCEPT !.retryCount = retryCount + 1]]
              ELSE calls' = [calls EXCEPT
                     ![r].state = "rejected",
                     ![r].status = resp.status,
                     ![r].all429 = is429,
                     ![r].delivered = Rejection(resp, calls[r].sent)]
  /\ UNCHANGED <<config, crawlVars, mergeVars, sortVars, serverVars>>

\* the attempt fails (a status outside 2xx, or no response): the error
\* interceptor either counts a retry and starts to sleep, or rejects
Fail(r) ==
  /\ calls[r].state = "inFlight"
  /\ \E resp \in Responses, jitter \in Jitters :
       /\ ~IsSuccess(resp)
       /\ LET retryCount == calls[r].retryCount
              delay == RetryDelay(config, retryCount, resp, jitter)
              is429 == calls[r].all429 /\ resp.status = 429
          IN  IF ShouldRetry(config, retryCount, resp)
              THEN calls' = [calls EXCEPT
                     ![r].state = "sleeping",
                     ![r].retryCount = retryCount + 1,
                     ![r].status = resp.status,
                     ![r].headers = resp.headers,
                     ![r].delay = delay.ms,
                     ![r].delayFrom = delay.from,
                     ![r].all429 = is429]
              ELSE calls' = [calls EXCEPT
                     ![r].state = "rejected",
                     ![r].status = resp.status,
                     ![r].all429 = is429,
                     ![r].delivered = Rejection(resp, calls[r].sent)]
  /\ UNCHANGED <<config, crawlVars, mergeVars, sortVars, serverVars>>

\* the sleep is over: return this.instance(error.config) sends the next
\* attempt with the same config
Resend(r) ==
  /\ calls[r].state = "sleeping"
  /\ calls' = [calls EXCEPT
       ![r].state = "inFlight",
       ![r].sent = @ + 1,
       ![r].headers = NoHeaders,
       ![r].delay = 0,
       ![r].delayFrom = "none"]
  /\ UNCHANGED <<config, crawlVars, mergeVars, sortVars, serverVars>>

\* a client is constructed; no request was made yet
ClientInit ==
  /\ CrawlInit
  /\ MergeUnused
  /\ SortUnused
  /\ ServerUnused
  /\ config \in Configs
  /\ calls = [r \in Calls |-> IdleCall]

ClientNext ==
  \E r \in Calls :
    \/ Issue(r)
    \/ Succeed(r)
    \/ Fail(r)
    \/ Resend(r)

ClientSpec == ClientInit /\ [][ClientNext]_vars

\* ------------------------------------------------------------------------
\* Claims about the request client
\* ------------------------------------------------------------------------

\* the attempts of request r that were answered so far
Answered(r) ==
  IF calls[r].state = "inFlight" THEN calls[r].sent - 1 ELSE calls[r].sent

\* C11: with maxRetries = N, a request whose every attempt is answered with
\* status 429 is sent exactly N + 1 times: it is never sent more often, it
\* is rejected when the attempt N + 1 is answered and not before, and the
\* caller then receives the 429 failure.
C11_RetryBound ==
  \A r \in Calls :
    (calls[r].all429 /\ Answered(r) >= 1) =>
      /\ calls[r].sent <= config.maxRetries + 1
      /\ calls[r].state # "resolved"
      /\ (Answered(r) = config.maxRetries + 1) <=>
           (calls[r].state = "rejected")
      /\ calls[r].state = "rejected" =>
           /\ calls[r].delivered.kind = "error"
           /\ calls[r].delivered.status = 429

\* C11 witness: a client with at least two retries rejected a request after
\* maxRetries + 1 attempts that were all answered with 429
C11_Witness ==
  \E r \in Calls :
    /\ config.maxRetries >= 2
    /\ calls[r].all429
    /\ calls[r].state = "rejected"
    /\ calls[r].sent = config.maxRetries + 1

\* request r was in flight and this step answers its attempt with a failure
AttemptFails(r) ==
  /\ calls[r].state = "inFlight"
  /\ calls'[r].state \in {"sleeping", "rejected"}

\* C12: a failed attempt is retried if and only if its status is 429 or 5xx
\* and the retry count of its request is below maxRetries; every other
\* failure is rejected to the caller in the same step, without a retry
\* being counted, an attempt being sent or a delay being slept.
C12_RetryEligibility ==
  [][\A r \in Calls :
       AttemptFails(r) =>
         LET retryable == \/ calls'[r].status = 429
                          \/ calls'[r].status \in 500..599
             below == calls[r].retryCount < config.maxRetries
         IN  /\ (calls'[r].state = "sleeping") <=> (retryable /\ below)
             /\ calls'[r].state = "sleeping" =>
                  /\ calls'[r].retryCount = calls[r].retryCount + 1
                  /\ calls'[r].delivered = NoDelivery
             /\ calls'[r].state = "rejected" =>
                  /\ calls'[r].retryCount = calls[r].retryCount
                  /\ calls'[r].sent = calls[r].sent
                  /\ calls'[r].delay = 0
                  /\ calls'[r].delayFrom = "none"
                  /\ calls'[r].delivered.kind = "error"]_vars

\* C12 witness: with retries left, one request was rejected at once for a
\* 404 and another, after a retry, for a failure without response
C12_Witness ==
  \E r, q \in Calls :
    /\ calls[r].state = "rejected" /\ calls[r].status = 404
    /\ calls[r].sent = 1 /\ config.maxRetries >= 1
    /\ calls[q].state = "rejected" /\ calls[q].delivered.kind = "error"
    /\ calls[q].status = 0 /\ calls[q].retryCount >= 1
    /\ calls[q].retryCount < config.maxRetries

\* C13: the delay calculateBackoffDelay returns, jitter included, never
\* exceeds maxDelayMs, whatever the retry count.
C13_BackoffCeiling ==
  \A r \in Calls :
    (calls[r].state = "sleeping" /\ calls[r].delayFrom = "backoff") =>
      calls[r].delay <= config.maxDelayMs

\* the retries counted for request r equal the attempts r itself had
\* answered with a retried failure
OwnRetries(r) ==
  CASE calls[r].state = "idle" -> 0
    [] calls[r].state = "sleeping" -> calls[r].sent
    [] OTHER -> calls[r].sent - 1

\* C14: the retry count is per logical request: a step of one request never
\* changes the count of another, the count of a request is the number of
\* its own retried attempts, and a request failing with 429 or 5xx is
\* rejected only after its own maxRetries + 1 attempts, however the
\* failures of the other requests interleave.
C14_PerRequestCounters ==
  /\ [](\A r \in Calls :
          /\ calls[r].retryCount = OwnRetries(r)
          /\ (calls[r].state = "rejected"
                /\ calls[r].status \in {429} \cup 500..599) =>
               calls[r].sent = config.maxRetries + 1)
  /\ [][\A r, q \in Calls :
          (r # q /\ calls'[r] # calls[r]) =>
            calls'[q].retryCount = calls[q].retryCount]_vars

\* C14 witness: one request used all its retries and was rejected while
\* another one, in flight at the same time, is sleeping before its first
\* retry
C14_Witness ==
  \E r, q \in Calls :
    /\ r # q
    /\ config.maxRetries >= 2
    /\ calls[r].state = "rejected"
    /\ calls[r].retryCount = config.maxRetries
    /\ calls[q].state = "sleeping"
    /\ calls[q].retryCount = 1

\* C15: when the attempt maxRetries + 1 of a request fails, the request is
\* rejected, and the caller receives the error of that attempt as it is:
\* neither a value, nor another error around it.
C15_ExhaustionRejectsWithFailure ==
  \A r \in Calls :
    (calls[r].sent = config.maxRetries + 1
       /\ calls[r].state \notin {"inFlight", "resolved"}) =>
      /\ calls[r].state = "rejected"
      /\ calls[r].delivered =
           [kind |-> "error", status |-> calls[r].status,
            attempt |-> config.maxRetries + 1]

\* C15 witness: a request was rejected with a 503 after all its retries
C15_Witness ==
  \E r \in Calls :
    /\ config.maxRetries >= 1
    /\ calls[r].state = "rejected"
    /\ calls[r].retryCount = config.maxRetries
    /\ calls[r].delivered.status = 503

\* C16: the caller of a request receives something only when the request
\* settles; a request whose attempt k succeeds after failed attempts
\* resolves with exactly the response of attempt k, k <= maxRetries + 1,
\* and no attempt is sent after it.
C16_TransientFailuresInvisible ==
  /\ [](\A r \in Calls :
          /\ (calls[r].delivered.kind # "none") <=>
               (calls[r].state \in {"resolved", "rejected"})
          /\ calls[r].delivered.kind = "response" =>
               /\ calls[r].state = "resolved"
               /\ calls[r].status \in 200..299
               /\ calls[r].sent <= config.maxRetries + 1
               /\ calls[r].delivered =
                    [kind |-> "response", status |-> calls[r].status,
                     attempt |-> calls[r].sent])
  /\ [][\A r \in Calls :
          calls[r].state = "resolved" => calls'[r] = calls[r]]_vars

\* C16 witness: a request resolved at its third attempt
C16_Witness ==
  \E r \in Calls :
    /\ calls[r].state = "resolved"
    /\ calls[r].sent = 3
    /\ calls[r].retryCount = 2
    /\ calls[r].delivered.kind = "response"

\* the rate-limit header the client reads: the first one present among
\* x-ratelimit-reset, retry-after and x-retry-after
FirstHeader(h) ==
  IF h.reset # << >> THEN h.reset
  ELSE IF h.retryAfter # << >> THEN h.retryAfter
  ELSE h.xRetryAfter

\* C22: while a request sleeps before a retry, its delay comes from the
\* first rate-limit header of the failed response when there is one (a
\* value longer than 5 characters as a timestamp in seconds, giving
\* max(0, timestamp - now), a shorter one as a count of seconds) and the
\* backoff is not used; without such a header it is
\* min(maxDelayMs, baseDelayMs * 2^attempt) plus a jitter below 100 ms.
C22_DelaySelection ==
  \A r \in Calls :
    calls[r].state = "sleeping" =>
      LET value == FirstHeader(calls[r].headers)
          attempt == calls[r].retryCount - 1
      IN  IF value # << >>
          THEN /\ calls[r].delayFrom = "header"
               /\ calls[r].delay =
                    IF Len(value) > 5
                    THEN Max(0, NumberOf(value) * 1000 - NowMs)
                    ELSE NumberOf(value) * 1000
          ELSE /\ calls[r].delayFrom = "backoff"
               /\ \E jitter \in 0..(JITTER_MS - 1) :
                    calls[r].delay =
                      Min(config.maxDelayMs,
                          config.baseDelayMs * 2 ^ attempt) + jitter

\* C22 witness: one request sleeps 0 ms for a reset timestamp in the past
\* although retry-after is present too, the other sleeps 10000 s for a
\* retry-after of 5 characters
C22_Witness ==
  \E r, q \in Calls :
    /\ calls[r].state = "sleeping"
    /\ calls[r].headers.reset = PastReset
    /\ calls[r].headers.retryAfter = <<"3">>
    /\ calls[r].delay = 0
    /\ calls[q].state = "sleeping"
    /\ calls[q].headers.retryAfter = LongCount
    /\ calls[q].delay = 10000000

\* ------------------------------------------------------------------------
\* Reconciliation of one id: getAnimeInfo (anilist.ts), getAni (anizip),
\* getMal (malsync.ts), the scraping providers and getMappings
\* ------------------------------------------------------------------------

\* longest episode list a source answers with
MaxEpisodes == 3

\* Array.from(new Set(list)): the values in order of first occurrence
RECURSIVE Dedup(_)
Dedup(list) ==
  IF list = << >> THEN << >>
  ELSE LET front == Dedup(SubSeq(list, 1, Len(list) - 1))
           last == list[Len(list)]
       IN  IF \E k \in 1..Len(front) : front[k] = last
           THEN front
           ELSE Append(front, last)

\* what AniList answers: the Media of infoQuery, or a failed request
\* (anilistResponse is null and anilistData undefined)
AnilistFailed ==
  [ok |-> FALSE, status |-> JsUndefined, format |-> JsUndefined,
   romaji |-> JsUndefined, genres |-> << >>, episodes |-> JsUndefined,
   idMal |-> << >>]

AnilistPool ==
  { AnilistFailed,
    [ok |-> TRUE, status |-> "FINISHED", format |-> "TV",
     romaji |-> "Title A", genres |-> <<"Action", "Drama">>,
     episodes |-> "12", idMal |-> <<"5114">>],
    [ok |-> TRUE, status |-> JsNull, format |-> "TV",
     romaji |-> "Title A", genres |-> << >>, episodes |-> JsNull,
     idMal |-> << >>] }

\* what Anify answers, or a failed request (anifyData undefined)
\* the artwork list of a record of Anify; a record that was not received
\* has none
NoArtwork == [present |-> FALSE, items |-> << >>]

\* the list Anify answers: the same entry twice, and an entry that names
\* neither its type nor its provider
AnifyArtwork ==
  [present |-> TRUE,
   items |-> << [type |-> "banner", providerId |-> "tvdb", img |-> "art 1"],
                [type |-> "banner", providerId |-> "tvdb", img |-> "art 1"],
                [type |-> "", providerId |-> "", img |-> "art 2"] >>]

AnifyFailed ==
  [ok |-> FALSE, status |-> JsUndefined, format |-> JsUndefined,
   romaji |-> JsUndefined, genres |-> << >>, synonyms |-> << >>,
   totalEpisodes |-> JsUndefined, bannerImage |-> JsUndefined,
   coverImage |-> JsUndefined, mappings |-> << >>, artwork |-> NoArtwork]

\* the provider-id list of Anify: it lists the scraping providers too
AnifyMappings ==
  << [providerId |-> "gogoanime", id |-> <<"anify-gogo">>],
     [providerId |-> "mal", id |-> <<"anify-mal">>],
     [providerId |-> "kitsu", id |-> <<"anify-kitsu">>] >>

AnifyPool ==
  { AnifyFailed,
    [ok |-> TRUE, status |-> "RELEASING", format |-> "ONA",
     romaji |-> "Title F", genres |-> <<"Drama", "Comedy">>,
     synonyms |-> <<"Syn F", "Syn X">>, totalEpisodes |-> "24",
     bannerImage |-> "banner F", coverImage |-> "cover F",
     mappings |-> AnifyMappings, artwork |-> AnifyArtwork],
    [ok |-> TRUE, status |-> "FINISHED", format |-> "TV",
     romaji |-> JsNull, genres |-> <<"Drama">>,
     synonyms |-> <<"Syn F">>, totalEpisodes |-> JsNull,
     bannerImage |-> "banner F", coverImage |-> "cover F",
     mappings |-> << >>, artwork |-> [present |-> TRUE, items |-> << >>]] }

\* what getMal returns: one mapping per site, whose data.id is the path of
\* the site's url, written here as the sequence of its "/"-separated
\* parts; a failed request gives no mapping
MalFailed == [ok |-> FALSE, mappings |-> << >>]

GogoMapping == [providerId |-> "gogoanime", id |-> <<"category", "gogo-1">>]
ZoroMapping == [providerId |-> "zoro", id |-> <<"zoro-1">>]

MalPool ==
  { MalFailed,
    [ok |-> TRUE, mappings |-> <<GogoMapping, ZoroMapping>>],
    [ok |-> TRUE, mappings |-> <<GogoMapping>>],
    [ok |-> TRUE,
     mappings |-> <<[providerId |-> "gogoanime", id |-> <<"gogo-1">>],
                    [providerId |-> "kitsu", id |-> <<"anime", "k-1">>]>>] }

\* episode k of data.episodes as the mapping service answers it: the
\* second episode has no title in any language, the third no runtime, and
\* only the first a rating
RawAniEpisode(k) ==
  [title |-> IF k = 2 THEN << >> ELSE <<"ani title", k>>,
   runtime |-> IF k = 3 THEN 0 ELSE 20 + k,
   rating |-> IF k = 1 THEN <<"8.5">> ELSE << >>,
   episodeNumber |-> k]

RawAniEpisodes(m) == [k \in 1..m |-> RawAniEpisode(k)]

\* the episode getAni builds from it: getEpisodeTitle and the defaults
GetAniEpisode(episode, k) ==
  [title |-> IF episode.title # << >> THEN episode.title
             ELSE <<"Unknown Title">>,
   duration |-> IF episode.runtime # 0 THEN episode.runtime ELSE 0,
   number |-> IF episode.episodeNumber # 0 THEN episode.episodeNumber
              ELSE k,
   rating |-> IF episode.rating # << >> THEN episode.rating
              ELSE <<"Unrated">>]

\* the m episodes of the mapping service, as getAni builds them
AniEpisodes(m) == [k \in 1..m |-> GetAniEpisode(RawAniEpisode(k), k)]

\* data.images of the mapping service, which vary with its answer: a
\* poster and a banner, a banner only, the same poster twice, or three
\* images of which the last names no cover type
PosterImage == [coverType |-> "Poster", url |-> "cover Z"]
BannerImage == [coverType |-> "Banner", url |-> "banner Z"]

RawImages(m) ==
  CASE m = 0 -> <<PosterImage, BannerImage>>
    [] m = 1 -> <<BannerImage>>
    [] m = 2 -> <<PosterImage, PosterImage>>
    [] OTHER -> <<PosterImage, BannerImage,
                  [coverType |-> "", url |-> "fan Z"]>>

\* the artworks getAni builds from them
GetAniArtworks(images) ==
  [k \in 1..Len(images) |->
     [type |-> IF images[k].coverType # "" THEN images[k].coverType
               ELSE "Unknown",
      image |-> images[k].url]]

\* findArtworkByType: the image of the first artwork of the type, or null
FindArtworkByType(artworks, type) ==
  IF \E k \in 1..Len(artworks) : artworks[k].type = type
  THEN LET k == CHOOSE j \in 1..Len(artworks) :
                  /\ artworks[j].type = type
                  /\ \A n \in 1..(j - 1) : artworks[n].type # type
       IN  IF artworks[k].image # "" THEN artworks[k].image ELSE JsNull
  ELSE JsNull

\* what getAni returns; on failure the record of its catch block
AniFailed ==
  [ok |-> FALSE, synonyms |-> << >>, episodes |-> << >>,
   rawEpisodes |-> << >>, artworks |-> << >>,
   bannerImage |-> JsNull, coverImage |-> JsNull, mappings |-> << >>]

\* the id map of the mapping service (data.mappings), keyed by its own key
\* names; the second one has a key the metadata service lists too
AniMappings == [mal_id |-> <<"5114">>, kitsu_id |-> <<"ani-kitsu">>]
AniMappingsColliding == [mal_id |-> <<"5114">>, kitsu |-> <<"ani-kitsu">>]

AniPool ==
  {AniFailed}
  \cup { [ok |-> TRUE, synonyms |-> <<"Syn X", "Syn Z">>,
          episodes |-> AniEpisodes(m),
          rawEpisodes |-> RawAniEpisodes(m),
          artworks |-> GetAniArtworks(RawImages(m)),
          bannerImage |->
            FindArtworkByType(GetAniArtworks(RawImages(m)), "Banner"),
          coverImage |->
            FindArtworkByType(GetAniArtworks(RawImages(m)), "Poster"),
          mappings |-> IF m = 0 THEN << >>
                       ELSE IF m = 1 THEN AniMappingsColliding
                       ELSE AniMappings] :
         m \in 0..MaxEpisodes }

\* the p episodes of a scraping provider; its episode numbers start at
\* first, its episode ids are its own
ProviderEpisodes(tag, first, p) ==
  [k \in 1..p |->
     [id |-> <<tag, k>>, number |-> first + k - 1,
      title |-> <<tag, "title", k>>]]

\* fetchAnimeInfo of a provider: on failure the catch gives {}
ProviderFailed ==
  [ok |-> FALSE, genres |-> << >>, synonyms |-> << >>, episodes |-> << >>]

GogoPool ==
  {ProviderFailed}
  \cup { [ok |-> TRUE, genres |-> <<"Action", "Comedy", "Action">>,
          synonyms |-> <<"Syn G">>,
          episodes |-> ProviderEpisodes("gogo", 2, p)] :
         p \in 0..MaxEpisodes }

ZoroPool ==
  {ProviderFailed}
  \cup { [ok |-> TRUE, genres |-> <<"Drama", "Sports">>,
          synonyms |-> <<"Syn X", "Syn Z2">>,
          episodes |-> ProviderEpisodes("zoro", 1, p)] :
         p \in {0, MaxEpisodes - 1} }

\* getAnimeInfo returns null: the entity has none of its fields
NoInfo ==
  [isNull |-> TRUE, status |-> JsUndefined, format |-> JsUndefined,
   romaji |-> JsUndefined, episodes |-> JsUndefined, genres |-> << >>,
   synonyms |-> << >>, bannerImage |-> JsUndefined,
   coverImage |-> JsUndefined, idMal |-> << >>, mappings |-> << >>,
   artwork |-> NoArtwork]

\* a field both answers have, as { ...anilistData, ...anifyData } leaves it
Spread(anilist, anify, a, f) == IF anify.ok THEN f ELSE a

\* the animeInfo object of getAnimeInfo: the spread of the two answers,
\* then status, title, genres and episodes; anilistData.studios throws
\* when the AniList request failed, and the catch returns null
AnimeInfo(anilist, anify) ==
  IF ~anilist.ok THEN NoInfo
  ELSE [isNull |-> FALSE,
        status |-> StatusOf(anilist, anify),
        format |-> Spread(anilist, anify, anilist.format, anify.format),
        romaji |-> Coalesce(anify.romaji, Coalesce(anilist.romaji, "")),
        episodes |->
          Coalesce(anify.totalEpisodes, Coalesce(anilist.episodes, "0")),
        genres |-> Dedup(anilist.genres \o anify.genres),
        synonyms |-> anify.synonyms,
        bannerImage |-> anify.bannerImage,
        coverImage |-> anify.coverImage,
        idMal |-> anilist.idMal,
        mappings |-> anify.mappings,
        artwork |-> anify.artwork]

\* a provider id that is null; "|| null" gives it for undefined and for ""
NullText == << >>

\* mal.find(mapping => mapping.providerId === providerId)?.data?.id: the
\* id of the first such mapping, undefined (no part) without one
FindMappingId(mappings, providerId) ==
  LET found == SelectSeq(mappings, LAMBDA m : m.providerId = providerId)
  IN  IF found = << >> THEN << >> ELSE found[1].id

\* extractProviderIds: for gogoanime the part after the first "/" of the
\* id (split("/")[1]), for zoro the whole id; null without one
ExtractProviderIds(mal) ==
  LET gogoParts == FindMappingId(mal.mappings, "gogoanime")
      zoroParts == FindMappingId(mal.mappings, "zoro")
  IN  [gogoId |-> IF Len(gogoParts) >= 2 THEN <<gogoParts[2]>>
                  ELSE NullText,
       zoroId |-> zoroParts]

\* variant: both providers are called, with whatever id there is
ProviderCalls_Always(providerIds) == {"gogoanime", "zoro"}

\* the providers fetchProviderInfo calls: those whose id is truthy
ProviderCalls(providerIds) ==
  { n \in {"gogoanime", "zoro"} :
      (IF n = "gogoanime" THEN providerIds.gogoId ELSE providerIds.zoroId)
        # NullText }

\* fetchProviderInfo: a provider is asked only when its id is not null;
\* otherwise, and when its request fails, its info is {}
FetchProviderInfo(providerId, answer) ==
  IF providerId # NullText /\ answer.ok THEN answer ELSE ProviderFailed

\* a || b for texts and for numbers: the empty text and 0 are falsy
OrText(a, b) == IF a # << >> THEN a ELSE b
OrNumber(a, b) == IF a # 0 THEN a ELSE b

\* the null the map of processEpisodes returns for an unpaired episode
NullEpisode ==
  [isNull |-> TRUE, title |-> << >>, number |-> 0, id |-> << >>,
   duration |-> 0, rating |-> << >>]

\* variant: the mapping episode is looked up by the episode number of the
\* provider (aniEpisodes[episode.number - 1])
ProcessEpisodes_JoinedByNumber(providerEpisodes, aniEpisodes, providerId) ==
  LET mapped ==
        [k \in 1..Len(providerEpisodes) |->
           LET episode == providerEpisodes[k]
               n == episode.number
           IN  IF n >= 1 /\ n <= Len(aniEpisodes)
               THEN [isNull |-> FALSE,
                     title |-> OrText(aniEpisodes[n].title,
                                 OrText(episode.title,
                                        <<"Untitled Episode">>)),
                     number |-> OrNumber(episode.number, k),
                     id |-> OrText(episode.id, <<"0">>),
                     duration |-> OrNumber(aniEpisodes[n].duration, 0),
                     rating |-> OrText(aniEpisodes[n].rating, <<"0">>)]
               ELSE NullEpisode]
  IN  [providerId |-> providerId,
       data |-> SelectSeq(mapped, LAMBDA e : ~e.isNull)]

\* processEpisodes: the provider episode at index k - 1 is paired with
\* aniEpisodes[k - 1]; without one the map gives null, which the filter
\* removes
ProcessEpisodes(providerEpisodes, aniEpisodes, providerId) ==
  LET mapped ==
        [k \in 1..Len(providerEpisodes) |->
           LET episode == providerEpisodes[k]
           IN  IF k <= Len(aniEpisodes)
               THEN [isNull |-> FALSE,
                     title |-> OrText(aniEpisodes[k].title,
                                 OrText(episode.title,
                                        <<"Untitled Episode">>)),
                     number |-> OrNumber(episode.number, k),
                     id |-> OrText(episode.id, <<"0">>),
                     duration |-> OrNumber(aniEpisodes[k].duration, 0),
                     rating |-> OrText(aniEpisodes[k].rating, <<"0">>)]
               ELSE NullEpisode]
  IN  [providerId |-> providerId,
       data |-> SelectSeq(mapped, LAMBDA e : ~e.isNull)]

\* the id getMappings is called with
RequestedId == <<"21">>

\* Object.fromEntries(list.map(m => [m.providerId, m.id])): one key per
\* provider id, the last entry of a provider giving the value
FromEntries(entries) ==
  [k \in { entries[n].providerId : n \in 1..Len(entries) } |->
     entries[CHOOSE n \in 1..Len(entries) :
               /\ entries[n].providerId = k
               /\ \A later \in (n + 1)..Len(entries) :
                    entries[later].providerId # k].id]

\* { ...a, ...b }: every key of b is set, also to undefined
Overlay(a, b) ==
  [k \in DOMAIN a \cup DOMAIN b |-> IF k \in DOMAIN b THEN b[k] ELSE a[k]]

\* the mappings object of finalInfo
ProviderIdMap(info, providerIds, ani) ==
  Overlay(
    Overlay(FromEntries(info.mappings),
            [gogoanime |-> OrText(providerIds.gogoId, IdUndefined),
             zoro |-> OrText(providerIds.zoroId, IdUndefined),
             mal |-> OrText(info.idMal, IdUndefined),
             anilist |-> RequestedId]),
    ani.mappings)

\* the body of getMappings: the fan-out, the provider fetches, the unions,
\* the episode lists and finalInfo
\* String.prototype.toLowerCase on the cover types
ToLowerCase(type) ==
  CASE type = "Poster" -> "poster"
    [] type = "Banner" -> "banner"
    [] type = "Unknown" -> "unknown"
    [] OTHER -> type

ArtworkOfAni(art) ==
  [type |-> IF art.type # "" THEN ToLowerCase(art.type) ELSE "unknown",
   image |-> art.image,
   providerId |-> "anizip"]

ArtworkOfInfo(art) ==
  [type |-> IF art.type # "" THEN art.type ELSE "unknown",
   image |-> art.img,
   providerId |-> IF art.providerId # "" THEN art.providerId
                  ELSE "unknown_provider"]

\* variant: the list is deduplicated like the genres and the synonyms
ProcessArtwork_Deduplicated(aniArtworks, infoArtwork) ==
  IF ~infoArtwork.present THEN << >>
  ELSE Dedup([k \in 1..Len(aniArtworks) |-> ArtworkOfAni(aniArtworks[k])]
             \o [k \in 1..Len(infoArtwork.items) |->
                   ArtworkOfInfo(infoArtwork.items[k])])

\* processArtwork: the two lists mapped and concatenated; infoArtwork.map
\* throws when the metadata has no artwork list, and the catch returns []
ProcessArtwork(aniArtworks, infoArtwork) ==
  IF ~infoArtwork.present THEN << >>
  ELSE [k \in 1..Len(aniArtworks) |-> ArtworkOfAni(aniArtworks[k])]
       \o [k \in 1..Len(infoArtwork.items) |->
             ArtworkOfInfo(infoArtwork.items[k])]

FinalInfo(src) ==
  LET info == AnimeInfo(src.anilist, src.anify)
      ani == src.ani
      providerIds == ExtractProviderIds(src.mal)
      gogo == FetchProviderInfo(providerIds.gogoId, src.gogo)
      zoro == FetchProviderInfo(providerIds.zoroId, src.zoro)
      genres == Dedup(info.genres \o gogo.genres \o zoro.genres)
      synonyms ==
        Dedup(info.synonyms \o ani.synonyms \o gogo.synonyms
                \o zoro.synonyms)
      episodes ==
        (IF Len(gogo.episodes) > 0
         THEN <<ProcessEpisodes(gogo.episodes, ani.episodes, "gogoanime")>>
         ELSE << >>)
        \o (IF Len(zoro.episodes) > 0
            THEN <<ProcessEpisodes(zoro.episodes, ani.episodes, "zoro")>>
            ELSE << >>)
  IN  [called |-> TRUE,
       isUndefined |-> FALSE,
       info |-> info,
       status |-> info.status,
       format |-> info.format,
       romaji |-> info.romaji,
       genres |-> genres,
       synonyms |-> synonyms,
       episodes |-> episodes,
       bannerImage |-> Coalesce(ani.bannerImage, info.bannerImage),
       coverImage |-> Coalesce(ani.coverImage, info.coverImage),
       artwork |-> ProcessArtwork(ani.artworks, info.artwork),
       gogoId |-> providerIds.gogoId,
       zoroId |-> providerIds.zoroId,
       providerCalls |-> ProviderCalls(providerIds),
       mappings |-> ProviderIdMap(info, providerIds, ani)]

\* what the six sources answer for the id under reconciliation
SourceAnswers ==
  [anilist : AnilistPool, anify : AnifyPool, mal : MalPool, ani : AniPool,
   gogo : GogoPool, zoro : ZoroPool]

\* getMappings(id) runs to its return
CallGetMappings ==
  /\ ~entity.called
  /\ entity' = FinalInfo(sources)
  /\ UNCHANGED <<sources, crawlVars, clientVars, sortVars, serverVars>>

MergeInit ==
  /\ CrawlInit
  /\ ClientUnused
  /\ SortUnused
  /\ ServerUnused
  /\ sources \in SourceAnswers
  /\ entity = NotCalled

MergeNext == CallGetMappings

MergeSpec == MergeInit /\ [][MergeNext]_vars

\* ------------------------------------------------------------------------
\* Claims about the reconciliation
\* ------------------------------------------------------------------------

NoDuplicates(list) ==
  \A j, k \in 1..Len(list) : list[j] = list[k] => j = k

\* the lists the sources answered for the genres and for the synonyms; a
\* provider answers only when it is asked, that is when its id resolved
GenreLists ==
  { sources.anilist.genres, sources.anify.genres,
    FetchProviderInfo(entity.gogoId, sources.gogo).genres,
    FetchProviderInfo(entity.zoroId, sources.zoro).genres }

SynonymLists ==
  { sources.anify.synonyms, sources.ani.synonyms,
    FetchProviderInfo(entity.gogoId, sources.gogo).synonyms,
    FetchProviderInfo(entity.zoroId, sources.zoro).synonyms }

\* C17: the merged genres and the merged synonyms of the entity have no
\* duplicate value and contain every value of the list of each source.
C17_UnionProperty ==
  entity.called =>
    /\ NoDuplicates(entity.genres)
    /\ NoDuplicates(entity.synonyms)
    /\ \A list \in GenreLists : Range(list) \subseteq Range(entity.genres)
    /\ \A list \in SynonymLists :
         Range(list) \subseteq Range(entity.synonyms)

\* the entries of the merged episodes collection for one provider
EntriesOf(providerId) ==
  SelectSeq(entity.episodes, LAMBDA e : e.providerId = providerId)

\* the k-th merged episode is built from provider episode k and mapping
\* episode k
PairedAt(merged, providerEpisodes, aniEpisodes, k) ==
  /\ merged[k].id = providerEpisodes[k].id
  /\ merged[k].number = providerEpisodes[k].number
  /\ merged[k].title = aniEpisodes[k].title
  /\ merged[k].duration = aniEpisodes[k].duration

\* the merged list of a provider that answered episodes: min(p, m) entries,
\* paired by position
PairedByPosition(providerId, nativeId, answer) ==
  (nativeId # NullText /\ answer.ok /\ Len(answer.episodes) >= 1) =>
    /\ Len(EntriesOf(providerId)) = 1
    /\ LET merged == EntriesOf(providerId)[1].data
           p == Len(answer.episodes)
           m == Len(sources.ani.episodes)
       IN  /\ Len(merged) = Min(p, m)
           /\ \A k \in 1..Min(p, m) :
                PairedAt(merged, answer.episodes, sources.ani.episodes, k)

\* C18: for a provider that returned p >= 1 episodes and a mapping-service
\* list of m episodes, the merged list of the provider has exactly min(p, m)
\* entries, the k-th built from provider episode k and mapping episode k;
\* provider episodes beyond the mapping list are dropped.
C18_PositionalPairing ==
  entity.called =>
    /\ PairedByPosition("gogoanime", entity.gogoId, sources.gogo)
    /\ PairedByPosition("zoro", entity.zoroId, sources.zoro)

\* C18 witness: providers with 3 and 2 episodes against mapping episodes
\* at indices 0 and 1 give two merged lists of 2 entries each
C18_Witness ==
  /\ entity.called
  /\ Len(sources.gogo.episodes) = 3
  /\ Len(sources.zoro.episodes) = 2
  /\ Len(sources.ani.episodes) = 2
  /\ Len(entity.episodes) = 2
  /\ Len(entity.episodes[1].data) = 2
  /\ Len(entity.episodes[2].data) = 2

SourceNames == {"anilist", "anify", "mal", "ani", "gogo", "zoro"}

\* the sources whose fetch failed
FailedSources == { n \in SourceNames : ~sources[n].ok }

\* what a source that answered leaves in the entity
DataPresent(n) ==
  CASE n = "anilist" ->
         Range(sources.anilist.genres) \subseteq Range(entity.genres)
    [] n = "anify" ->
         /\ Range(sources.anify.genres) \subseteq Range(entity.genres)
         /\ Range(sources.anify.synonyms) \subseteq Range(entity.synonyms)
    [] n = "mal" ->
         /\ entity.gogoId = ExtractProviderIds(sources.mal).gogoId
         /\ entity.zoroId = ExtractProviderIds(sources.mal).zoroId
         /\ entity.gogoId # NullText =>
              entity.mappings.gogoanime = entity.gogoId
         /\ entity.zoroId # NullText =>
              entity.mappings.zoro = entity.zoroId
    [] n = "ani" ->
         Range(sources.ani.synonyms) \subseteq Range(entity.synonyms)
    [] n = "gogo" ->
         entity.gogoId # NullText =>
           Range(sources.gogo.genres) \subseteq Range(entity.genres)
    [] n = "zoro" ->
         entity.zoroId # NullText =>
           Range(sources.zoro.genres) \subseteq Range(entity.genres)

\* C19: when exactly one source fails and the others answer, getMappings
\* still returns an entity, and the data of every source that answered is
\* present in it.
C19_OutageIsolation ==
  (entity.called /\ Cardinality(FailedSources) = 1) =>
    /\ ~entity.isUndefined
    /\ \A n \in SourceNames \ FailedSources : DataPresent(n)

HasValue(v) == v \notin {JsUndefined, JsNull}

\* the two answers disagree on a field and the record has Anify's value
AnifyWins(anilistValue, anifyValue, merged) ==
  (HasValue(anilistValue) /\ HasValue(anifyValue)
     /\ anilistValue # anifyValue) =>
    merged = anifyValue

\* C20: in the record of getAnimeInfo the value of Anify overrides the value
\* of AniList for every field both have (status, title parts and episode
\* count included); in the entity the mapping service overrides the banner
\* and cover image when its value is not empty, and no other scalar field.
C20_ScalarPrecedence ==
  (entity.called /\ ~entity.info.isNull) =>
    /\ sources.anify.ok =>
         /\ AnifyWins(sources.anilist.status, sources.anify.status,
                      entity.info.status)
         /\ AnifyWins(sources.anilist.format, sources.anify.format,
                      entity.info.format)
         /\ AnifyWins(sources.anilist.romaji, sources.anify.romaji,
                      entity.info.romaji)
         /\ AnifyWins(sources.anilist.episodes,
                      sources.anify.totalEpisodes, entity.info.episodes)
    /\ entity.bannerImage =
         IF HasValue(sources.ani.bannerImage)
         THEN sources.ani.bannerImage ELSE entity.info.bannerImage
    /\ entity.coverImage =
         IF HasValue(sources.ani.coverImage)
         THEN sources.ani.coverImage ELSE entity.info.coverImage
    /\ entity.status = entity.info.status
    /\ entity.format = entity.info.format
    /\ entity.romaji = entity.info.romaji

\* the native id getMappings resolved for a provider
ResolvedId(n) == IF n = "gogoanime" THEN entity.gogoId ELSE entity.zoroId

\* C21: a scraping provider is called if and only if its native id
\* resolved; a provider that is not called contributes no episode list;
\* when neither id resolves no provider is called and the entity is still
\* returned, with the metadata and mapping-service data and no episodes.
C21_ProvidersFetchedIffResolved ==
  entity.called =>
    /\ \A n \in {"gogoanime", "zoro"} :
         /\ (n \in entity.providerCalls) <=> (ResolvedId(n) # NullText)
         /\ ResolvedId(n) = NullText => EntriesOf(n) = << >>
    /\ (entity.gogoId = NullText /\ entity.zoroId = NullText) =>
         /\ entity.providerCalls = {}
         /\ ~entity.isUndefined
         /\ entity.episodes = << >>
         /\ entity.genres = entity.info.genres
         /\ Range(sources.ani.synonyms) \subseteq Range(entity.synonyms)
         /\ entity.status = entity.info.status

\* C21 witness: the mapping answered but resolved neither id, both
\* providers would have answered episodes, and the entity has the genres of
\* the metadata services and no episodes
C21_Witness ==
  /\ entity.called
  /\ sources.mal.ok
  /\ entity.gogoId = NullText /\ entity.zoroId = NullText
  /\ Len(sources.gogo.episodes) >= 1 /\ Len(sources.zoro.episodes) >= 1
  /\ entity.providerCalls = {}
  /\ entity.genres # << >>
  /\ entity.synonyms # << >>
  /\ entity.episodes = << >>

\* the metadata service lists an id for provider k, and the id it lists
Listed(k) ==
  \E n \in 1..Len(entity.info.mappings) :
    entity.info.mappings[n].providerId = k

ListedId(k) ==
  LET entries ==
        SelectSeq(entity.info.mappings, LAMBDA m : m.providerId = k)
  IN  entries[Len(entries)].id

\* the keys some source has an id for, and the id of the source that is
\* applied last among them
IdKeys ==
  DOMAIN sources.ani.mappings
    \cup {"anilist"}
    \cup (IF entity.info.idMal # << >> THEN {"mal"} ELSE {})
    \cup (IF entity.gogoId # NullText THEN {"gogoanime"} ELSE {})
    \cup (IF entity.zoroId # NullText THEN {"zoro"} ELSE {})
    \cup { k \in {"gogoanime", "zoro", "kitsu"} : Listed(k) }

ExpectedId(k) ==
  IF k \in DOMAIN sources.ani.mappings THEN sources.ani.mappings[k]
  ELSE IF k = "anilist" THEN RequestedId
  ELSE IF k = "mal" /\ entity.info.idMal # << >> THEN entity.info.idMal
  ELSE IF k = "gogoanime" /\ entity.gogoId # NullText THEN entity.gogoId
  ELSE IF k = "zoro" /\ entity.zoroId # NullText THEN entity.zoroId
  ELSE ListedId(k)

\* C23: the provider-id map of the entity is the list of the metadata
\* service overlaid by the resolved provider ids, the MAL id as text, the
\* requested id under "anilist" and last the id map of the mapping service;
\* an unresolved provider id overlays nothing, so an id the metadata service
\* lists under that provider's key is kept.
C23_ProviderIdMap ==
  entity.called =>
    \A k \in IdKeys :
      /\ k \in DOMAIN entity.mappings
      /\ entity.mappings[k] = ExpectedId(k)

\* the value of a field of a merged episode when the mapping service is
\* preferred, then the provider, then the default
PreferText(aniValue, providerValue, default) ==
  IF aniValue # << >> THEN aniValue
  ELSE IF providerValue # << >> THEN providerValue
  ELSE default

PreferNumber(aniValue, providerValue, default) ==
  IF aniValue # 0 THEN aniValue
  ELSE IF providerValue # 0 THEN providerValue
  ELSE default

\* the fields of the merged episodes of one provider resolve that way
FieldsResolved(providerId, nativeId, answer) ==
  (nativeId # NullText /\ answer.ok /\ Len(answer.episodes) >= 1) =>
    LET merged == EntriesOf(providerId)[1].data
    IN  \A k \in 1..Len(merged) :
          LET raw == sources.ani.rawEpisodes[k]
              episode == answer.episodes[k]
          IN  /\ merged[k].title =
                   PreferText(raw.title, episode.title,
                              <<"Untitled Episode">>)
              /\ merged[k].number =
                   PreferNumber(raw.episodeNumber, episode.number, k)
              /\ merged[k].duration = PreferNumber(raw.runtime, 0, 0)
              /\ merged[k].rating = PreferText(raw.rating, << >>, <<"0">>)

\* C24: every field of a paired episode is the value of the mapping service
\* when it has one, otherwise the value of the provider, otherwise the
\* default (title "Untitled Episode", number index + 1, duration 0, rating
\* "0"); the title of the provider is used when the mapping service has no
\* title for the episode.
C24_EpisodeFieldResolution ==
  entity.called =>
    /\ FieldsResolved("gogoanime", entity.gogoId, sources.gogo)
    /\ FieldsResolved("zoro", entity.zoroId, sources.zoro)

\* this step is the call of getMappings in the loop, and it yields undefined
MappingsYieldNothing == pc = "Processing" /\ pc' # pc /\ mappingData'.isUndefined

\* C25: getMappings propagates no exception: what is thrown while an id is
\* reconciled is caught at the top level and the call yields undefined,
\* which the crawl treats as a skip (warning, pause, next id) and not as a
\* failure: nothing is stored or checkpointed and the run is not aborted.
C25_NoResultIsSkip ==
  [][MappingsYieldNothing =>
       /\ outcome' = "noResult"
       /\ pc' = "Sleeping"
       /\ i' = i
       /\ exitCode' = 0
       /\ UNCHANGED <<db, file, inserted, writes>>]_vars

C25_Witness ==
  pc = "Sleeping" /\ outcome = "noResult" /\ mappingData.isUndefined

\* ------------------------------------------------------------------------
\* sortKeysByValueLength (src/src/anime/malsync.ts)
\* ------------------------------------------------------------------------
\* most keys of the object passed to sortKeysByValueLength
MaxKeys == 3

\* property names of the entity
KeyPool == {"id", "status", "genres", "episodes"}

\* values of the properties: strings, arrays, an object (content: its
\* keys), and values that are none of these
ValuePool ==
  { [type |-> "string", content |-> << >>],
    [type |-> "string", content |-> <<"o", "k">>],
    [type |-> "array", content |-> <<"Action">>],
    [type |-> "array", content |-> <<"e1", "e2", "e3">>],
    [type |-> "object", content |-> <<"romaji", "english">>],
    [type |-> "number", content |-> <<"4", "2">>],
    [type |-> "null", content |-> << >>] }

\* an object is the sequence of its own properties in enumeration order
\* (Object.entries); property names are distinct
Objects ==
  { o \in UNION { [1..n -> [key : KeyPool, value : ValuePool]] :
                  n \in 0..MaxKeys } :
      \A j, k \in 1..Len(o) : j # k => o[j].key # o[k].key }

GetLength(value) ==
  IF value.type = "string" THEN Len(value.content)
  ELSE IF value.type = "array" THEN Len(value.content)
  ELSE IF value.type = "object" THEN Len(value.content)
  ELSE 0

\* variant: the comparator orders an entry before the entries of the
\* same length
RECURSIVE InsertEntry_BeforeEqual(_, _)
InsertEntry_BeforeEqual(seq, e) ==
  IF seq = << >> THEN <<e>>
  ELSE IF GetLength(e.value) - GetLength(Head(seq).value) <= 0
       THEN <<e>> \o seq
       ELSE <<Head(seq)>> \o InsertEntry_BeforeEqual(Tail(seq), e)

\* the place of one more entry in sorted entries: Array.prototype.sort is
\* stable, and the comparator lengthA - lengthB is negative only for a
\* shorter value
RECURSIVE InsertEntry(_, _)
InsertEntry(seq, e) ==
  IF seq = << >> THEN <<e>>
  ELSE IF GetLength(e.value) - GetLength(Head(seq).value) < 0
       THEN <<e>> \o seq
       ELSE <<Head(seq)>> \o InsertEntry(Tail(seq), e)

\* Object.entries(obj).sort(comparator)
RECURSIVE SortEntries(_)
SortEntries(entries) ==
  IF entries = << >> THEN << >>
  ELSE InsertEntry(SortEntries(SubSeq(entries, 1, Len(entries) - 1)),
                   entries[Len(entries)])

\* Object.fromEntries: a property is created at its first entry and takes
\* the value of its last one
RECURSIVE ObjectFromEntries(_)
ObjectFromEntries(entries) ==
  IF entries = << >> THEN << >>
  ELSE LET front == ObjectFromEntries(SubSeq(entries, 1, Len(entries) - 1))
           e == entries[Len(entries)]
       IN  IF \E k \in 1..Len(front) : front[k].key = e.key
           THEN [k \in 1..Len(front) |->
                   IF front[k].key = e.key THEN e ELSE front[k]]
           ELSE Append(front, e)

SortKeysByValueLength(o) == ObjectFromEntries(SortEntries(o))

NotSorted == [called |-> FALSE]

CallSort ==
  /\ ~sorted.called
  /\ sorted' = [called |-> TRUE, entries |-> SortKeysByValueLength(obj)]
  /\ UNCHANGED <<obj, crawlVars, clientVars, mergeVars, serverVars>>

SortInit ==
  /\ CrawlInit
  /\ ClientUnused
  /\ MergeUnused
  /\ ServerUnused
  /\ obj \in Objects
  /\ sorted = NotSorted

SortNext == CallSort

SortSpec == SortInit /\ [][SortNext]_vars

\* the length the ordering is stated with: string length, array length,
\* number of keys of an object, 0 for every other value
StatedLength(value) ==
  CASE value.type = "string" -> Len(value.content)
    [] value.type = "array" -> Len(value.content)
    [] value.type = "object" -> Cardinality(Range(value.content))
    [] OTHER -> 0

\* the position of a key in an object
PositionOf(o, key) == CHOOSE k \in 1..Len(o) : o[k].key = key

\* C26: the result of sortKeysByValueLength has the key/value pairs of the
\* input; its keys are in non-decreasing order of the length of their
\* values (string length, array length, number of keys of an object, 0 for
\* a number, a boolean or null); keys whose values have the same length
\* keep the order they had in the input.
C26_SortedByValueLength ==
  sorted.called =>
    LET out == sorted.entries
    IN  /\ Len(out) = Len(obj)
        /\ Range(out) = Range(obj)
        /\ \A k \in 1..(Len(out) - 1) :
             StatedLength(out[k].value) <= StatedLength(out[k + 1].value)
        /\ \A j, k \in 1..Len(obj) :
             (j < k /\ StatedLength(obj[j].value) = StatedLength(obj[k].value))
               => PositionOf(out, obj[j].key) < PositionOf(out, obj[k].key)

C26_Witness ==
  /\ sorted.called
  /\ sorted.entries # obj
  /\ \E j, k \in 1..Len(obj) :
       /\ j < k
       /\ obj[j].value.type = "number"
       /\ obj[k].value.type = "string"
       /\ GetLength(obj[j].value) = GetLength(obj[k].value)

\* ------------------------------------------------------------------------
\* C27  the artwork list of the entity
\* ------------------------------------------------------------------------
\* the artwork step fails: the metadata has no artwork list to map
ArtworkStepFails == ~entity.info.artwork.present

\* C27: the artwork list is the artworks of the mapping service (type in
\* lower case, provider "anizip") followed by the artwork entries of the
\* metadata service (each with its own provider id), in input order and
\* not deduplicated, so its length is the sum of the two lengths; when the
\* step fails the list is empty and getMappings still returns an entity.
C27_ArtworkConcatenation ==
  entity.called =>
    LET aniArtworks == sources.ani.artworks
        infoArtwork == entity.info.artwork.items
        n == Len(aniArtworks)
    IN  /\ ~entity.isUndefined
        /\ ArtworkStepFails => entity.artwork = << >>
        /\ ~ArtworkStepFails =>
             /\ Len(entity.artwork) = n + Len(infoArtwork)
             /\ \A k \in 1..n :
                  /\ entity.artwork[k].providerId = "anizip"
                  /\ entity.artwork[k].image = aniArtworks[k].image
                  /\ entity.artwork[k].type
                       \in {"poster", "banner", "unknown"}
             /\ \A k \in 1..Len(infoArtwork) :
                  /\ entity.artwork[n + k].image = infoArtwork[k].img
                  /\ infoArtwork[k].providerId # "" =>
                       entity.artwork[n + k].providerId
                         = infoArtwork[k].providerId

\* both lists have entries, with the same entry twice in each
C27_Witness ==
  /\ entity.called
  /\ ~ArtworkStepFails
  /\ Len(sources.ani.artworks) = 2
  /\ sources.ani.artworks[1] = sources.ani.artworks[2]
  /\ Len(entity.artwork) = 5

\* ------------------------------------------------------------------------
\* C28  skipped ids across runs
\* ------------------------------------------------------------------------
\* this run went through the id list the previous run had
SameListCompleted == run > 1 /\ pc = "Completed" /\ ids = earlier.ids

\* C28: an id that a run skipped or failed, so that it was neither stored
\* nor checkpointed, is processed again by a later run over the same id
\* list: the checkpoint does not move past an unstored id so that the
\* later runs start after it.
C28_SkippedProcessedAgain ==
  SameListCompleted => earlier.unstored \subseteq Range(processed)

\* ------------------------------------------------------------------------
\* The server (server module of src/unnamed/part_000)
\* ------------------------------------------------------------------------
\* number of requests the server handles
MaxRequests == 2

\* the ids clients ask for
ServerIds == { <<"2", "1">>, <<"7">> }

\* process.env.SECRET_KEY: not set, set to the empty string, or a secret
SecretKeys == {JsUndefined, "", "s3cret"}

\* ctx.req.query("secret"): no parameter, an empty one, the secret, or
\* another text
SecretParams == {JsUndefined, "", "s3cret", "guess"}

\* the statuses for which /info/:id inserts the mappings
insertStatuses == {"FINISHED", "RELEASED", "CANCELLED"}

NoRequest ==
  [route |-> "none", id |-> << >>, secret |-> JsUndefined, status |-> 0,
   message |-> "", source |-> "none", deleted |-> FALSE]

\* the response of /info/:id
InfoResponse(id, status, message, source) ==
  [route |-> "/info/:id", id |-> id, secret |-> JsUndefined,
   status |-> status, message |-> message, source |-> source,
   deleted |-> FALSE]

\* the response of /delete_all
DeleteResponse(secret, status, message, deleted) ==
  [route |-> "/delete_all", id |-> << >>, secret |-> secret,
   status |-> status, message |-> message, source |-> "none",
   deleted |-> deleted]

\* the catch of /info/:id wraps whatever the try block threw, an
\* HTTPException included, in an HTTPException of status 500 that keeps
\* the message
CaughtStatus(thrownStatus) == 500

\* variant: the secret is compared without the test of its presence
DeleteAllGate_Unchecked(secret, key) == IF secret = key THEN 200 ELSE 401

\* the two tests of /delete_all: 400 for a falsy parameter, then 200 (and
\* deleteAllAnime) for one strictly equal to process.env.SECRET_KEY, and
\* 401 for any other
DeleteAllGate(secret, key) ==
  IF ~Truthy(secret) THEN 400
  ELSE IF secret = key THEN 200
  ELSE 401

\* GET /info/:id, from the request to the response
Info(id) ==
  /\ requests < MaxRequests
  /\ requests' = requests + 1
  /\ \E redisOk, mongoOk, insertOk, providersOk \in BOOLEAN,
        anilist \in AnilistResponses, anify \in AnifyResponses :
       LET cached == redisOk /\ id \in cache
           found == mongoOk /\ id \in store
           m == GetMappings(id, anilist, anify, providersOk)
           cacheSet == IF redisOk THEN cache \cup {id} ELSE cache
       IN  IF cached
           THEN /\ response' = InfoResponse(id, 200, "", "cache")
                /\ UNCHANGED <<store, cache>>
           ELSE IF found
           THEN /\ response' = InfoResponse(id, 200, "", "store")
                /\ cache' = cacheSet
                /\ UNCHANGED store
           ELSE IF m.isUndefined
           THEN /\ response' =
                     InfoResponse(id, CaughtStatus(404), "Anime not found.",
                                  "none")
                /\ UNCHANGED <<store, cache>>
           ELSE IF m.status \notin insertStatuses
           THEN /\ response' = InfoResponse(id, 200, "", "mappings")
                /\ cache' = cacheSet
                /\ UNCHANGED store
           ELSE IF insertOk /\ mongoOk /\ id \notin store
           THEN /\ response' = InfoResponse(id, 200, "", "mappings")
                /\ cache' = cacheSet
                /\ store' = store \cup {id}
           ELSE /\ response' =
                     InfoResponse(id, CaughtStatus(500), "insert failed",
                                  "mappings")
                /\ cache' = cacheSet
                /\ UNCHANGED store
  /\ UNCHANGED <<secretKey, crawlVars, clientVars, mergeVars, sortVars>>

\* GET /delete_all, from the request to the response; deleteMany may
\* reject, and deleteAllAnime rethrows
DeleteAll(secret) ==
  /\ requests < MaxRequests
  /\ requests' = requests + 1
  /\ IF DeleteAllGate(secret, secretKey) = 400
     THEN /\ response' =
               DeleteResponse(secret, 400, "No secret provided.", FALSE)
          /\ UNCHANGED store
     ELSE IF DeleteAllGate(secret, secretKey) = 200
     THEN \E mongoOk \in BOOLEAN :
            IF mongoOk
            THEN /\ store' = {}
                 /\ response' =
                      DeleteResponse(secret, 200, "All anime deleted.", TRUE)
            ELSE /\ UNCHANGED store
                 /\ response' =
                      DeleteResponse(secret, 500, "Internal Server Error",
                                     TRUE)
     ELSE /\ response' = DeleteResponse(secret, 401, "Invalid secret.", FALSE)
          /\ UNCHANGED store
  /\ UNCHANGED <<secretKey, cache, crawlVars, clientVars, mergeVars,
                 sortVars>>

\* the server has started: both databases hold what earlier processes left
ServerInit ==
  /\ CrawlInit
  /\ ClientUnused
  /\ MergeUnused
  /\ SortUnused
  /\ secretKey \in SecretKeys
  /\ store \in SUBSET ServerIds
  /\ cache \in SUBSET ServerIds
  /\ response = NoRequest
  /\ requests = 0

ServerNext ==
  \/ \E id \in ServerIds : Info(id)
  \/ \E secret \in SecretParams : DeleteAll(secret)

ServerSpec == ServerInit /\ [][ServerNext]_vars

\* ------------------------------------------------------------------------
\* C29  the shared secret of /delete_all
\* ------------------------------------------------------------------------
\* this step handles a request of /delete_all
DeleteAllRequested == requests' # requests /\ response'.route = "/delete_all"

\* the secret parameter of a request is present, not empty, and the
\* configured secret
ValidSecret(secret) ==
  /\ secret # JsUndefined
  /\ secret # ""
  /\ secretKey # JsUndefined
  /\ secret = secretKey

\* C29: deleteAll of the store is executed only by a /delete_all request
\* whose secret parameter is present, not empty and equal to the configured
\* secret; a request with a missing, empty or different secret, and every
\* request while no secret is configured, leaves the store unchanged.
C29_DeleteAllGate ==
  /\ [](response.deleted =>
          response.route = "/delete_all" /\ ValidSecret(response.secret))
  /\ [][(DeleteAllRequested /\ ~ValidSecret(response'.secret)) =>
          (store' = store /\ ~response'.deleted)]_vars
  /\ [][(\E id \in store : id \notin store') =>
          (DeleteAllRequested /\ ValidSecret(response'.secret))]_vars

\* a non-empty store was emptied
C29_Witness ==
  /\ response.route = "/delete_all"
  /\ response.deleted
  /\ response.status = 200
  /\ store = {}
  /\ cache # {}

\* ------------------------------------------------------------------------
\* C30  the response of /info/:id for an anime that is not found
\* ------------------------------------------------------------------------
\* the latest request asked for an id that is in neither database and for
\* which getMappings yielded nothing
NothingFound ==
  /\ response.route = "/info/:id"
  /\ response.source = "none"
  /\ response.id \notin cache
  /\ response.id \notin store

\* C30: when the cache has no entry, the store has no entry and getMappings
\* yields no result, the response of /info/:id is the 404 "Anime not
\* found." error, and no other error status.
C30_MissingAnimeIs404 ==
  NothingFound =>
    response.status = 404 /\ response.message = "Anime not found."

====
